---- MODULE Spec2Model ----
(***************************************************************************)
(* Admin surface of the chat application: the four admin request handlers  *)
(* of server/routes/admin.ts over the users / bans / licenses collections, *)
(* and the client-side helpers of client/lib/security.ts (RateLimiter,     *)
(* sanitizeInput).                                                         *)
(*                                                                         *)
(* Each handler is an async function: it is modelled as a sequence of      *)
(* steps, one per record-store operation it awaits.  A step holds the      *)
(* store operation together with the synchronous code that follows it up   *)
(* to the next await.  The users collection is also written by flows       *)
(* outside this surface, which is the action OutOfBand.                    *)
(***************************************************************************)
EXTENDS Integers, Sequences, FiniteSets, TLC

VARIABLES
    adminDb,      \* admin.ts:8   TRUE when the Firestore handle is set
    adminAuth,    \* admin.ts:9   TRUE when the Auth handle is set
    users,        \* collection "users": uid -> document snapshot
    bans,         \* collection "bans": documents in the order add() made them
    licenses,     \* collection "licenses": key -> document
    req,          \* the request being handled and its handler's position
    rl,           \* RateLimiter: localStorage entry, clock, configuration
    san           \* sanitizeInput: input and the results of applying it

vars == <<adminDb, adminAuth, users, bans, licenses, req, rl, san>>

----------------------------------------------------------------------------
(* Bounds of the model *)

\* Most writes (ban + license documents) the store receives in one behaviour.
MaxWrites == 1

\* Lengths of the base-36 fraction Math.random().toString(36) prints.
FracLens == {0, 1, 9, 11}

Uids == {"user-alice", "user-bobby"}
\* Tokens the identity provider verifies, and the uid each decodes to.
TokenUid == [tokenAlice |-> "user-alice", tokenBobby |-> "user-bobby"]
GoodTokens == DOMAIN TokenUid
\* Token strings a client can send: verified ones, a forged one, an empty one.
TokenStrings == GoodTokens \cup {"forged", ""}
\* userId strings a client can send ("short" is under the schema's 10 chars).
UserIdStrings == Uids \cup {"short"}
\* Reasons of 10, 3 and 501 characters.
Chars50 == "spam links spam links spam links spam links spam l"
Chars500 ==
    Chars50 \o Chars50 \o Chars50 \o Chars50 \o Chars50 \o Chars50 \o Chars50
        \o Chars50 \o Chars50 \o Chars50
ReasonStrings == {"spam links", "bad", Chars500 \o "!"}
\* A JSON number of a request body: whole + tenths / 10 (1.5 is Num(1, 5)).
Num(whole, tenths) == [whole |-> whole, tenths |-> tenths]
DurationValues == {Num(0, 0), Num(1, 0), Num(1, 5), Num(36501, 0)}
PlanStrings == {"Pro", "Free", "Gold"}
ValidityValues == {0, 30}
\* The readings of the clock (milliseconds) a handler can get.
Clock == {0, 1}

----------------------------------------------------------------------------
(* Firebase Admin initialisation, admin.ts:11-25 *)

\* credential: "absent" | "malformed" | "present";
\* failAt: the call of the try block that throws, or "none".
InitializeAdmin(credential, failAt) ==
    IF credential = "absent" THEN [db |-> FALSE, auth |-> FALSE]
    ELSE IF credential = "malformed" THEN [db |-> FALSE, auth |-> FALSE]
    ELSE IF failAt = "initializeApp" THEN [db |-> FALSE, auth |-> FALSE]
    ELSE IF failAt = "getFirestore" THEN [db |-> FALSE, auth |-> FALSE]
    ELSE IF failAt = "getAuth" THEN [db |-> TRUE, auth |-> FALSE]
    ELSE [db |-> TRUE, auth |-> TRUE]

InitOutcomes ==
    { InitializeAdmin(c, f) :
        c \in {"absent", "malformed", "present"},
        f \in {"none", "initializeApp", "getFirestore", "getAuth"} }

----------------------------------------------------------------------------
(* Documents *)

NoDoc == [exists |-> FALSE, isAdmin |-> FALSE]
UserDocs == { [exists |-> TRUE, isAdmin |-> a] : a \in BOOLEAN }
UserSnapshots == UserDocs \cup {NoDoc}

\* The fields handleGetAllUsers reads from a user document, and the fields
\* each user's document carries beside them: alice's record has two more
\* (one of them named like the entry's uid), bobby's has none.
ProjectedFields == {"email", "displayName", "isAdmin", "plan", "createdAt"}
ExtraFields == [u \in Uids |-> IF u = "user-alice" THEN {"passwordHash", "uid"} ELSE {}]

\* doc.data() of an existing user document: field name -> stored value.
\* isAdmin is the snapshot's; the other fields hold a value of their own.
FieldValue(id, f) == f \o " of " \o id
DocData(id, snap) ==
    [f \in ProjectedFields \cup ExtraFields[id] |->
        IF f = "isAdmin" THEN snap.isAdmin ELSE FieldValue(id, f)]

\* JavaScript truthiness of userDoc.data()?.isAdmin (undefined when no data).
IsAdminTruthy(snap) == snap.exists /\ snap.isAdmin = TRUE

----------------------------------------------------------------------------
(* Validation schemas, admin.ts:28-43 and 152-157 *)

\* VerifyAdminSchema: idToken is a string of at least 1 character.
VerifyAdminSchema(body) == Len(body.idToken) >= 1

\* BanUserSchema.  z.string().uuid().or(z.string().min(10)): a uuid has 36
\* characters, so the union accepts exactly the strings of 10 or more.
BanUserSchema(body) ==
    /\ Len(body.idToken) >= 1
    /\ Len(body.userId) >= 10
    /\ Len(body.reason) >= 5 /\ Len(body.reason) <= 500
    /\ body.duration.tenths = 0 /\ body.duration.whole > 0

\* The inline schema of handleCreateLicense.
LicenseSchema(body) ==
    /\ body.plan \in {"Free", "Classic", "Pro"}
    /\ body.validityDays \in Int /\ body.validityDays > 0

\* An Authorization header is modelled by what split("Bearer ") makes of it:
\* the sequence of pieces between occurrences of "Bearer ".  NoHeader is the
\* header being absent.
NoHeader == <<>>
HeaderValues ==
    {NoHeader} \cup { <<"", t>> : t \in TokenStrings } \cup { <<t>> : t \in GoodTokens }

\* req.headers.authorization?.split("Bearer ")[1]; "" stands for undefined,
\* which the handlers' !idToken treats as it treats the empty string.
BearerToken(header) == IF Len(header) >= 2 THEN header[2] ELSE ""

----------------------------------------------------------------------------
(* Responses *)

NoRes == [status |-> 0, success |-> FALSE, error |-> "", details |-> ""]
Ok200 == [status |-> 200, success |-> TRUE, error |-> "", details |-> ""]
ErrRes(status, error, details) ==
    [status |-> status, success |-> FALSE, error |-> error, details |-> details]

\* The status and error string of each handler's catch block.
CatchStatus(op) ==
    CASE op = "verifyAdmin" -> 401
      [] op = "banUser" -> 400
      [] op = "getAllUsers" -> 401
      [] op = "createLicense" -> 400

CatchError(op) ==
    CASE op = "verifyAdmin" -> "Unauthorized"
      [] op = "banUser" -> "Failed to ban user"
      [] op = "getAllUsers" -> "Unauthorized"
      [] op = "createLicense" -> "Failed to create license"

Caught(op, message) == ErrRes(CatchStatus(op), CatchError(op), message)

----------------------------------------------------------------------------
(* License key generation, admin.ts:160 *)

Min(a, b) == IF a <= b THEN a ELSE b

Base36Chars ==
    << "0", "1", "2", "3", "4", "5", "6", "7", "8", "9", "a", "b", "c", "d",
       "e", "f", "g", "h", "i", "j", "k", "l", "m", "n", "o", "p", "q", "r",
       "s", "t", "u", "v", "w", "x", "y", "z" >>
UpperChars ==
    << "0", "1", "2", "3", "4", "5", "6", "7", "8", "9", "A", "B", "C", "D",
       "E", "F", "G", "H", "I", "J", "K", "L", "M", "N", "O", "P", "Q", "R",
       "S", "T", "U", "V", "W", "X", "Y", "Z" >>
DigitChars == { Base36Chars[i] : i \in 1..10 }
UpperAlnum == { UpperChars[i] : i \in 1..36 }

\* A value of Math.random() in [0, 1) is modelled by the base-36 digits of
\* its fraction, as toString(36) prints them: <<>> is 0, <<18>> is 0.5
\* ("0.i").  The values drawn have the fraction lengths of FracLens.
Frac(n) == IF n = 1 THEN <<18>> ELSE [i \in 1..n |-> IF i % 2 = 1 THEN 20 ELSE 7]
RandomValues == { Frac(n) : n \in FracLens }

\* Number.prototype.toString(36) of a value in [0, 1).
ToString36(r) ==
    IF Len(r) = 0 THEN <<"0">>
    ELSE <<"0", ".">> \o [i \in 1..Len(r) |-> Base36Chars[r[i] + 1]]

\* String.prototype.substr(start, length), for start within or at the end.
Substr(s, start, length) ==
    IF start >= Len(s) THEN <<>>
    ELSE SubSeq(s, start + 1, Min(Len(s), start + length))

UpperOf(c) ==
    IF \E i \in 1..36 : Base36Chars[i] = c
    THEN UpperChars[CHOOSE i \in 1..36 : Base36Chars[i] = c]
    ELSE c
ToUpperCase(s) == [i \in 1..Len(s) |-> UpperOf(s[i])]

\* The decimal digits of a natural number, as a template literal prints it.
RECURSIVE Decimal(_)
Decimal(n) ==
    IF n < 10 THEN <<Base36Chars[n + 1]>>
    ELSE Decimal(n \div 10) \o <<Base36Chars[(n % 10) + 1]>>

\* `LIC-${Date.now()}-${Math.random().toString(36).substr(2, 9).toUpperCase()}`
LicenseKey(now, random) ==
    <<"L", "I", "C", "-">> \o Decimal(now) \o <<"-">>
        \o ToUpperCase(Substr(ToString36(random), 2, 9))

----------------------------------------------------------------------------
(* Requests *)

Body(idToken, userId, reason, duration, plan, validityDays) ==
    [idToken |-> idToken, userId |-> userId, reason |-> reason,
     duration |-> duration, plan |-> plan, validityDays |-> validityDays]

VerifyAdminBodies == { Body(t, "", "", Num(0, 0), "", 0) : t \in TokenStrings }
BanUserBodies ==
    { Body(t, u, r, d, "", 0) :
        t \in TokenStrings, u \in UserIdStrings, r \in ReasonStrings,
        d \in DurationValues }
LicenseBodies ==
    { Body("", "", "", Num(0, 0), p, v) : p \in PlanStrings, v \in ValidityValues }
NoBody == Body("", "", "", Num(0, 0), "", 0)

\* A request and the position of its handler.  idp, reads and writes count
\* the calls the handler has made to verifyIdToken and to the record store;
\* gateSnap and targetSnap hold the user documents those reads returned;
\* pending holds the document whose write has been issued; list is the
\* users array of the response of list-users.
Idle ==
    [op |-> "none", pc |-> "idle", header |-> NoHeader, body |-> NoBody,
     idToken |-> "", uid |-> "", adminUid |-> "", pending |-> <<>>,
     gateSnap |-> <<>>, targetSnap |-> <<>>, list |-> <<>>,
     res |-> NoRes, idp |-> 0, reads |-> 0, writes |-> 0]

Received(op, header, body, idToken) ==
    [Idle EXCEPT !.op = op, !.pc = "start", !.header = header, !.body = body,
                 !.idToken = idToken]

Respond(r, res) == [r EXCEPT !.pc = "done", !.res = res]

\* verifyAdmin without its first line, the check of the Auth handle.
MutVerifyAdminEnterNoInitCheck(r) ==
    IF r.idToken \notin GoodTokens
    THEN Respond([r EXCEPT !.idp = @ + 1], Caught(r.op, "verifyIdToken rejected"))
    ELSE [r EXCEPT !.idp = @ + 1, !.uid = TokenUid[r.idToken], !.pc = "gate"]

\* verifyAdmin up to its record-store read, admin.ts:46-49.  The token's
\* verification depends on the token alone, so it is taken in the same step.
VerifyAdminEnter(r) ==
    IF ~adminAuth
    THEN Respond(r, Caught(r.op, "Admin SDK not initialized"))
    ELSE IF r.idToken \notin GoodTokens
    THEN Respond([r EXCEPT !.idp = @ + 1], Caught(r.op, "verifyIdToken rejected"))
    ELSE [r EXCEPT !.idp = @ + 1, !.uid = TokenUid[r.idToken], !.pc = "gate"]

\* handleVerifyAdmin, admin.ts:60-63
VerifyAdminEntry(body) ==
    LET r == Received("verifyAdmin", NoHeader, body, body.idToken) IN
    IF ~VerifyAdminSchema(body) THEN Respond(r, Caught(r.op, "ZodError"))
    ELSE VerifyAdminEnter(r)

\* handleBanUser, admin.ts:75-80
BanUserEntry(body) ==
    LET r == Received("banUser", NoHeader, body, body.idToken) IN
    IF ~BanUserSchema(body) THEN Respond(r, Caught(r.op, "ZodError"))
    ELSE VerifyAdminEnter(r)

\* handleGetAllUsers, admin.ts:117-122
GetAllUsersEntry(header) ==
    LET r == Received("getAllUsers", header, NoBody, BearerToken(header)) IN
    IF r.idToken = "" THEN Respond(r, Caught(r.op, "No ID token provided"))
    ELSE VerifyAdminEnter(r)

\* handleCreateLicense, admin.ts:145-150
CreateLicenseEntry(header, body) ==
    LET r == Received("createLicense", header, body, BearerToken(header)) IN
    IF r.idToken = "" THEN Respond(r, Caught(r.op, "No ID token provided"))
    ELSE VerifyAdminEnter(r)

\* The check of verifyAdmin with the isAdmin test left out.
MutGatePassesExistsOnly(snap) == snap.exists

\* The check of verifyAdmin on the user document read, admin.ts:52-56
GatePasses(snap) == snap.exists /\ IsAdminTruthy(snap)

\* handleCreateLicense after verifyAdmin, admin.ts:152-173: the payload is
\* parsed, the key and the document are built, and the write is issued.
\* now1 is Date.now() of the key, now2 the new Date() of createdAt.
LicenseData(r, now1, random, now2) ==
    [key |-> LicenseKey(now1, random), plan |-> r.body.plan,
     validityDays |-> r.body.validityDays, createdBy |-> r.adminUid,
     createdAt |-> now2, used |-> FALSE, usedBy |-> "null", usedAt |-> "null"]

CreateLicenseAfterGate(r, now1, random, now2) ==
    IF ~LicenseSchema(r.body) THEN Respond(r, Caught(r.op, "ZodError"))
    ELSE [r EXCEPT !.pending = <<LicenseData(r, now1, random, now2)>>,
                   !.pc = "licenseWrite"]

\* The handler's step at the read of verifyAdmin: the read, the check, and
\* the code that follows verifyAdmin up to the handler's next store call.
AfterGate(r, snap, now1, random, now2) ==
    LET r1 == [r EXCEPT !.reads = @ + 1, !.gateSnap = <<snap>>] IN
    IF ~GatePasses(snap)
    THEN Respond(r1, Caught(r.op, "Unauthorized: Not an admin"))
    ELSE LET r2 == [r1 EXCEPT !.adminUid = r.uid] IN
         CASE r.op = "verifyAdmin" -> Respond(r2, Ok200)
           [] r.op = "banUser" -> [r2 EXCEPT !.pc = "target"]
           [] r.op = "getAllUsers" -> [r2 EXCEPT !.pc = "list"]
           [] r.op = "createLicense" -> CreateLicenseAfterGate(r2, now1, random, now2)

\* The expiry handleBanUser computes, admin.ts:98
ExpiresAt(now, duration) == now + duration * 1000

\* banData, admin.ts:92-99.  now1 is the clock read by new Date() of
\* bannedAt, now2 the clock read by Date.now() of expiresAt; the duration is
\* the integer the schema has let through.
BanData(r, now1, now2) ==
    [userId |-> r.body.userId, reason |-> r.body.reason, bannedBy |-> r.adminUid,
     bannedAt |-> now1, duration |-> r.body.duration.whole,
     expiresAt |-> ExpiresAt(now2, r.body.duration.whole)]

\* handleBanUser with the "Cannot ban admin users" check left out.
MutAfterTargetNoAdminCheck(r, snap, now1, now2) ==
    LET r1 == [r EXCEPT !.reads = @ + 1, !.targetSnap = <<snap>>] IN
    IF ~snap.exists
    THEN Respond(r1, ErrRes(404, "User not found", ""))
    ELSE [r1 EXCEPT !.pending = <<BanData(r, now1, now2)>>, !.pc = "banWrite"]

\* handleBanUser at the read of the target document, admin.ts:83-101
AfterTarget(r, snap, now1, now2) ==
    LET r1 == [r EXCEPT !.reads = @ + 1, !.targetSnap = <<snap>>] IN
    IF ~snap.exists
    THEN Respond(r1, ErrRes(404, "User not found", ""))
    ELSE IF IsAdminTruthy(snap)
    THEN Respond(r1, ErrRes(403, "Cannot ban admin users", ""))
    ELSE [r1 EXCEPT !.pending = <<BanData(r, now1, now2)>>, !.pc = "banWrite"]

\* The entry of list-users with every field of the document spread into it.
MutProjectUserAllFields(id, data) ==
    [f \in {"uid"} \cup DOMAIN data |-> IF f = "uid" THEN id ELSE data[f]]

\* The entry handleGetAllUsers makes of one document, admin.ts:125-132
ProjectUser(id, data) ==
    [uid |-> id, email |-> data["email"], displayName |-> data["displayName"],
     isAdmin |-> data["isAdmin"], plan |-> data["plan"],
     createdAt |-> data["createdAt"]]

\* snapshot.docs.map(...), admin.ts:124-132: the documents of the
\* collection in the order of their ids, each projected.
UidSeq == <<"user-alice", "user-bobby">>
ListUsers(coll) ==
    LET Exists(u) == coll[u].exists
        docs == SelectSeq(UidSeq, Exists) IN
    [i \in 1..Len(docs) |-> ProjectUser(docs[i], DocData(docs[i], coll[docs[i]]))]

----------------------------------------------------------------------------
(* The client-side helpers start out unused; their own specifications     *)
(* (SpecRL, SpecSan) are further down.                                     *)

RLUnused ==
    [maxRequests |-> 0, windowMs |-> 0, accessible |-> TRUE,
     stored |-> <<>>, now |-> 0, ret |-> FALSE,
     winStart |-> 0, calls |-> 0, granted |-> 0, elapsed |-> FALSE]
SanUnused == [pc |-> "unused", input |-> <<>>, once |-> <<>>, twice |-> <<>>]

----------------------------------------------------------------------------
(* The admin handlers as a state machine *)

NoLicenses == [k \in {} |-> NoRes]
WritesSoFar == Len(bans) + Cardinality(DOMAIN licenses)
GetUser(id) == IF id \in DOMAIN users THEN users[id] ELSE NoDoc
Free == req.pc = "idle"

Init ==
    /\ \E o \in InitOutcomes : adminDb = o.db /\ adminAuth = o.auth
    /\ users \in [Uids -> UserSnapshots]
    /\ bans = <<>>
    /\ licenses = NoLicenses
    /\ req = Idle
    /\ rl = RLUnused
    /\ san = SanUnused

HandleVerifyAdmin ==
    /\ Free
    /\ \E body \in VerifyAdminBodies : req' = VerifyAdminEntry(body)
    /\ UNCHANGED <<adminDb, adminAuth, users, bans, licenses, rl, san>>

HandleBanUser ==
    /\ Free
    /\ WritesSoFar < MaxWrites
    /\ \E body \in BanUserBodies : req' = BanUserEntry(body)
    /\ UNCHANGED <<adminDb, adminAuth, users, bans, licenses, rl, san>>

HandleGetAllUsers ==
    /\ Free
    /\ \E header \in HeaderValues : req' = GetAllUsersEntry(header)
    /\ UNCHANGED <<adminDb, adminAuth, users, bans, licenses, rl, san>>

HandleCreateLicense ==
    /\ Free
    /\ WritesSoFar < MaxWrites
    /\ \E header \in HeaderValues, body \in LicenseBodies :
          req' = CreateLicenseEntry(header, body)
    /\ UNCHANGED <<adminDb, adminAuth, users, bans, licenses, rl, san>>

\* adminDb.collection("users").doc(decodedToken.uid).get() resolves.
Gate ==
    /\ req.pc = "gate"
    /\ \E now1 \in Clock, random \in RandomValues :
         \E now2 \in {t \in Clock : t >= now1} :
            req' = AfterGate(req, GetUser(req.uid), now1, random, now2)
    /\ UNCHANGED <<adminDb, adminAuth, users, bans, licenses, rl, san>>

\* adminDb.collection("users").doc(userId).get() resolves.
TargetRead ==
    /\ req.pc = "target"
    /\ \E now1 \in Clock :
         \E now2 \in {t \in Clock : t >= now1} :
            req' = AfterTarget(req, GetUser(req.body.userId), now1, now2)
    /\ UNCHANGED <<adminDb, adminAuth, users, bans, licenses, rl, san>>

\* adminDb.collection("bans").add(banData) commits, admin.ts:101-106
BanWrite ==
    /\ req.pc = "banWrite"
    /\ bans' = Append(bans, req.pending[1])
    /\ req' = Respond([req EXCEPT !.writes = @ + 1], Ok200)
    /\ UNCHANGED <<adminDb, adminAuth, users, licenses, rl, san>>

\* adminDb.collection("users").get() resolves, admin.ts:124-134
ListRead ==
    /\ req.pc = "list"
    /\ req' = Respond([req EXCEPT !.reads = @ + 1, !.list = ListUsers(users)], Ok200)
    /\ UNCHANGED <<adminDb, adminAuth, users, bans, licenses, rl, san>>

\* adminDb.collection("licenses").doc(licenseKey).set(licenseData) commits,
\* admin.ts:173-177
LicenseWrite ==
    /\ req.pc = "licenseWrite"
    /\ LET data == req.pending[1] IN
         licenses' = [k \in DOMAIN licenses \cup {data.key} |->
                         IF k = data.key THEN data ELSE licenses[k]]
    /\ req' = Respond([req EXCEPT !.writes = @ + 1], Ok200)
    /\ UNCHANGED <<adminDb, adminAuth, users, bans, rl, san>>

\* The response has been sent and the handler has returned: the server
\* takes the next request.
Finish ==
    /\ req.pc = "done"
    /\ req' = Idle
    /\ UNCHANGED <<adminDb, adminAuth, users, bans, licenses, rl, san>>

\* The users collection is written outside this surface (sign-up, the admin
\* flag toggled, the record deleted), at any moment.
OutOfBand ==
    /\ \E u \in Uids, snap \in UserSnapshots :
          /\ snap # users[u]
          /\ users' = [users EXCEPT ![u] = snap]
    /\ UNCHANGED <<adminDb, adminAuth, bans, licenses, req, rl, san>>

Next ==
    \/ HandleVerifyAdmin
    \/ HandleBanUser
    \/ HandleGetAllUsers
    \/ HandleCreateLicense
    \/ Gate
    \/ TargetRead
    \/ BanWrite
    \/ ListRead
    \/ LicenseWrite
    \/ Finish
    \/ OutOfBand

Spec == Init /\ [][Next]_vars

----------------------------------------------------------------------------
(* Claims about the admin handlers *)

Done == req.pc = "done"
IsAdminDoc(snap) == snap.exists /\ snap.isAdmin = TRUE
\* The user document verifyAdmin read for the token's subject was absent or
\* did not carry isAdmin = true.
SubjectNotAdmin == req.gateSnap # <<>> /\ ~IsAdminDoc(req.gateSnap[1])
NoStoreWrites == req.writes = 0 /\ req.pending = <<>>

\* C1: in each of the four admin operations, when the subject the token
\* verifies to has no user record, or a record whose isAdmin is not true,
\* the handler answers with the failure "Unauthorized: Not an admin" (never
\* with success), and it issues no write to any collection.
C1_NonAdminRejectedWithoutWrites ==
    SubjectNotAdmin =>
        /\ Done
        /\ ~req.res.success
        /\ req.res.status \in {400, 401}
        /\ req.res.details = "Unauthorized: Not an admin"
        /\ NoStoreWrites

\* C1 witness: a well-formed create-license request from a registered user
\* who is not an admin has been answered.
C1_Witness ==
    /\ Done /\ req.op = "createLicense" /\ LicenseSchema(req.body)
    /\ req.gateSnap = <<[exists |-> TRUE, isAdmin |-> FALSE]>>

\* C2: when the target user document Ban User reads does not exist the
\* handler answers 404, when it carries isAdmin it answers 403, and in both
\* cases no ban document is written.
C2_NoBanForAbsentOrAdminTarget ==
    (req.op = "banUser" /\ req.targetSnap # <<>>) =>
        LET target == req.targetSnap[1] IN
        /\ ~target.exists => Done /\ req.res.status = 404 /\ NoStoreWrites
        /\ IsAdminDoc(target) => Done /\ req.res.status = 403 /\ NoStoreWrites

\* C2 witness: an admin's ban request whose target is an admin was answered.
C2_Witness ==
    /\ Done /\ req.op = "banUser"
    /\ req.targetSnap = <<[exists |-> TRUE, isAdmin |-> TRUE]>>

\* C3: at the moment a ban or license document is written, the user named
\* by its bannedBy / createdBy has a user record with isAdmin = true,
\* whatever happens to the users collection while the request is handled.
C3_IssuerIsAdminAtWrite ==
    [][ /\ bans' # bans =>
              IsAdminDoc(GetUser(bans'[Len(bans')].bannedBy))
        /\ licenses' # licenses =>
              \A k \in DOMAIN licenses' :
                  (k \notin DOMAIN licenses \/ licenses'[k] # licenses[k])
                      => IsAdminDoc(GetUser(licenses'[k].createdBy)) ]_vars

\* C4: with the Auth or Firestore handle unset, no handler answers with
\* success, every answer is an error, and no handler reads or writes the
\* record store.
C4_FailsClosedWhenUninitialized ==
    (~adminAuth \/ ~adminDb) =>
        /\ req.pc \in {"idle", "done"}
        /\ Done => ~req.res.success /\ req.res.status >= 400
        /\ req.reads = 0 /\ NoStoreWrites
        /\ bans = <<>> /\ licenses = NoLicenses

\* C4 witness: getAuth() threw at start-up (the Firestore handle is set, the
\* Auth handle is not) and a ban request with a verifiable token and a valid
\* body has been answered.
C4_Witness ==
    /\ adminDb /\ ~adminAuth
    /\ Done /\ req.op = "banUser" /\ BanUserSchema(req.body)
    /\ req.idToken \in GoodTokens

\* C5: every ban document stored has expiresAt = bannedAt + duration * 1000.
C5_ExpiryExact ==
    \A i \in 1..Len(bans) :
        bans[i].expiresAt = bans[i].bannedAt + bans[i].duration * 1000

\* The declared key format: LIC-<digits>-<exactly 9 uppercase alphanumerics>.
KeyMatchesFormat(key) ==
    LET digits == Len(key) - 14 IN
    /\ digits >= 1
    /\ SubSeq(key, 1, 4) = <<"L", "I", "C", "-">>
    /\ \A i \in 5..(4 + digits) : key[i] \in DigitChars
    /\ key[5 + digits] = "-"
    /\ \A i \in (6 + digits)..Len(key) : key[i] \in UpperAlnum

\* C6: a successful Create License call wrote exactly one document; every
\* license document is stored under its own key, unused, and its key
\* matches the declared format.
C6_LicenseRecordWellFormed ==
    /\ (Done /\ req.op = "createLicense" /\ req.res.success) => req.writes = 1
    /\ \A k \in DOMAIN licenses :
          /\ licenses[k].key = k
          /\ licenses[k].used = FALSE
          /\ licenses[k].usedBy = "null"
          /\ licenses[k].usedAt = "null"
          /\ KeyMatchesFormat(k)

\* The status the error taxonomy assigns to each failure.
AuthFailures ==
    {"No ID token provided", "verifyIdToken rejected", "Unauthorized: Not an admin"}
\* C9: each failure is answered with the status of its kind: 401 for a
\* missing, invalid or non-admin token, 400 for a validation failure, 403
\* for a ban whose target is an admin, 404 for a ban whose target is absent.
C9_StatusByFailureKind ==
    (Done /\ ~req.res.success) =>
        /\ req.res.details \in AuthFailures => req.res.status = 401
        /\ req.res.details = "ZodError" => req.res.status = 400
        /\ req.res.error = "Cannot ban admin users" => req.res.status = 403
        /\ req.res.error = "User not found" => req.res.status = 404

\* The Authorization header is "Bearer " followed by a token of the declared
\* format (at least 10 characters).
WellFormedBearer(header) ==
    Len(header) = 2 /\ header[1] = "" /\ Len(header[2]) >= 10
\* Some field of the request in hand fails the schema of its operation.
FailsValidation ==
    CASE req.op = "verifyAdmin" -> ~VerifyAdminSchema(req.body)
      [] req.op = "banUser" -> ~BanUserSchema(req.body)
      [] req.op = "getAllUsers" -> ~WellFormedBearer(req.header)
      [] req.op = "createLicense" ->
            ~WellFormedBearer(req.header) \/ ~LicenseSchema(req.body)
      [] OTHER -> FALSE
\* C11: a request with a field that fails its schema (the plan /
\* validityDays payload of Create License and the bearer token of the
\* Authorization header included) causes no call of the identity provider
\* and no read or write of the record store.
C11_ValidationBeforeBusinessLogic ==
    FailsValidation => req.idp = 0 /\ req.reads = 0 /\ NoStoreWrites

\* C12: a Ban User request whose duration is not an integer in 1..36500, or
\* whose reason has fewer than 5 or more than 500 characters, is answered
\* at once with a validation failure, and no ban document carries such a
\* duration or reason.
C12_BanRangesEnforced ==
    /\ req.op = "banUser" =>
          LET d == req.body.duration
              n == Len(req.body.reason) IN
          (d.tenths # 0 \/ d.whole \notin 1..36500 \/ n < 5 \/ n > 500) =>
              /\ Done
              /\ req.res.status = 400 /\ req.res.details = "ZodError"
              /\ NoStoreWrites
    /\ \A i \in 1..Len(bans) :
          /\ bans[i].duration \in 1..36500
          /\ Len(bans[i].reason) >= 5 /\ Len(bans[i].reason) <= 500

\* C13: when List Users, called by an admin, reads the users collection,
\* its response has one entry per user document; each entry holds the
\* document's id and exactly the five projected fields with their stored
\* values, and no other field of the document; the request writes nothing.
C13_ListProjectsFiveFields ==
    [][ /\ req'.op = "getAllUsers" => req'.writes = 0 /\ req'.pending = <<>>
        /\ (req.pc = "list" /\ req'.pc = "done") =>
              LET docs == {u \in Uids : users[u].exists}
                  list == req'.list IN
              /\ req'.res.success
              /\ Len(list) = Cardinality(docs)
              /\ \A u \in docs : \E i \in 1..Len(list) : list[i].uid = u
              /\ \A i \in 1..Len(list) :
                    /\ DOMAIN list[i] = {"uid"} \cup ProjectedFields
                    /\ list[i].uid \in docs
                    /\ \A f \in ProjectedFields :
                          list[i][f] = DocData(list[i].uid, users[list[i].uid])[f]
              /\ UNCHANGED <<users, bans, licenses>> ]_vars

\* C13 witness: an admin's List Users call has been answered with two
\* entries, the first for a user whose document carries additional fields.
C13_Witness ==
    /\ Done /\ req.op = "getAllUsers" /\ req.res.success
    /\ req.adminUid \in Uids
    /\ Len(req.list) = 2
    /\ ExtraFields[req.list[1].uid] # {}
    /\ Cardinality(DOMAIN req.list[1]) = 6

----------------------------------------------------------------------------
(* RateLimiter, security.ts:118-171 *)

\* maxRequests is drawn from 0..MaxRequests, windowMs from 1..MaxWindow.
MaxRequests == 2
MaxWindow == 2
\* The clock (milliseconds) runs from 0 to MaxNow.
MaxNow == 5
\* Most isAllowed calls made within one window of the limiter.
MaxCalls == 4

\* JSON.stringify of { count, resetAt } and JSON.parse of that text; the
\* text is modelled by its sequence of tokens.
JSONStringify(obj) == <<"count", obj.count, "resetAt", obj.resetAt>>
JSONParse(text) == [count |-> text[2], resetAt |-> text[4]]

\* RateLimiter.isAllowed, security.ts:129-162.  l.stored is the localStorage
\* entry under this.key: <<>> when there is none (getItem returns null),
\* else <<text>>.  The result is the entry afterwards and the value returned.
IsAllowed(l) ==
    IF ~l.accessible THEN [stored |-> l.stored, ret |-> TRUE]
    ELSE IF l.stored = <<>>
    THEN [stored |-> <<JSONStringify([count |-> 1, resetAt |-> l.now + l.windowMs])>>,
          ret |-> TRUE]
    ELSE LET parsed == JSONParse(l.stored[1]) IN
         IF l.now > parsed.resetAt
         THEN [stored |-> <<JSONStringify([count |-> 1, resetAt |-> l.now + l.windowMs])>>,
               ret |-> TRUE]
         ELSE IF parsed.count >= l.maxRequests
         THEN [stored |-> l.stored, ret |-> FALSE]
         ELSE [stored |-> <<JSONStringify([parsed EXCEPT !.count = @ + 1])>>,
               ret |-> TRUE]

\* The limiter began a new window: it stored a fresh entry.
Restarted(before, after) ==
    /\ after # <<>>
    /\ before = <<>> \/ JSONParse(after[1]).resetAt # JSONParse(before[1]).resetAt

InitRL ==
    /\ adminDb = FALSE /\ adminAuth = FALSE
    /\ users = [u \in Uids |-> NoDoc]
    /\ bans = <<>>
    /\ licenses = NoLicenses
    /\ req = Idle
    /\ san = SanUnused
    /\ \E n \in 0..MaxRequests, w \in 1..MaxWindow, a \in BOOLEAN :
          rl = [RLUnused EXCEPT !.maxRequests = n, !.windowMs = w, !.accessible = a]

\* A call of isAllowed().  Beside the limiter's own state the step records
\* what the claims speak of: the value returned, the time the limiter's
\* current window was opened, the calls and the granted calls made in it,
\* and whether windowMs milliseconds had passed since the window was opened
\* when the call was made.
CallIsAllowed ==
    /\ rl.calls < MaxCalls
    /\ LET out == IsAllowed(rl)
           fresh == Restarted(rl.stored, out.stored)
       IN rl' = [rl EXCEPT
                    !.stored = out.stored,
                    !.ret = out.ret,
                    !.winStart = IF fresh THEN rl.now ELSE @,
                    !.calls = IF fresh THEN 1 ELSE @ + 1,
                    !.granted = IF fresh THEN 1 ELSE IF out.ret THEN @ + 1 ELSE @,
                    !.elapsed = rl.stored # <<>> /\ rl.now >= rl.winStart + rl.windowMs]
    /\ UNCHANGED <<adminDb, adminAuth, users, bans, licenses, req, san>>

\* RateLimiter.reset, security.ts:164-170
CallReset ==
    /\ rl.stored # <<>>
    /\ rl' = [rl EXCEPT !.stored = <<>>, !.calls = 0, !.granted = 0, !.elapsed = FALSE]
    /\ UNCHANGED <<adminDb, adminAuth, users, bans, licenses, req, san>>

\* The clock advances by a millisecond.
Tick ==
    /\ rl.now < MaxNow
    /\ rl' = [rl EXCEPT !.now = @ + 1]
    /\ UNCHANGED <<adminDb, adminAuth, users, bans, licenses, req, san>>

NextRL == CallIsAllowed \/ CallReset \/ Tick

SpecRL == InitRL /\ [][NextRL]_vars

\* C7: from empty storage, within one window the first maxRequests calls of
\* isAllowed return true and the next one returns false; a call made once
\* windowMs milliseconds have passed since the window was opened returns
\* true and starts a new window whose count is 1.
C7_WindowGrantsThenResets ==
    (rl.accessible /\ rl.calls >= 1) =>
        /\ ~rl.elapsed =>
              /\ rl.calls <= rl.maxRequests => rl.ret
              /\ rl.calls = rl.maxRequests + 1 => ~rl.ret
        /\ rl.elapsed =>
              /\ rl.ret
              /\ rl.calls = 1
              /\ JSONParse(rl.stored[1]).count = 1

\* C8: with storage accessible, the isAllowed calls that return true within
\* one window of the limiter number at most maxRequests.
C8_AtMostMaxPerWindow ==
    rl.accessible => rl.granted <= rl.maxRequests

----------------------------------------------------------------------------
(* sanitizeInput, security.ts:21-41 *)

\* Input strings have at most MaxLen characters.
MaxLen == 3

\* A string is a sequence of characters.  NUL is \x00, SOH is \x01 (a
\* control character that is not white space), VT is \x0B (a control
\* character that String.prototype.trim treats as white space).  "&lt;" and
\* "&gt;" are the character references a serialised text node holds for
\* < and >.
InputChars == {"a", " ", "<", ">", "NUL", "SOH", "VT"}
WhiteSpace == {" ", "VT"}
\* [\x00-\x08\x0B\x0C\x0E-\x1F\x7F]
ControlChars == {"NUL", "SOH", "VT"}
Letters == {"a"}

RECURSIVE StringsUpTo(_)
StringsUpTo(n) ==
    IF n = 0 THEN {<<>>}
    ELSE LET shorter == StringsUpTo(n - 1) IN
         shorter \cup { Append(x, c) : x \in shorter, c \in InputChars }

\* String.prototype.trim
RECURSIVE TrimStart(_)
TrimStart(x) ==
    IF x # <<>> /\ x[1] \in WhiteSpace THEN TrimStart(Tail(x)) ELSE x
RECURSIVE TrimEnd(_)
TrimEnd(x) ==
    IF x # <<>> /\ x[Len(x)] \in WhiteSpace
    THEN TrimEnd(SubSeq(x, 1, Len(x) - 1)) ELSE x
Trim(x) == TrimEnd(TrimStart(x))

\* x.replace(/[set]/g, "")
RECURSIVE RemoveAll(_, _)
RemoveAll(x, set) ==
    IF x = <<>> THEN <<>>
    ELSE IF x[1] \in set THEN RemoveAll(Tail(x), set)
    ELSE <<x[1]>> \o RemoveAll(Tail(x), set)

Includes(x, c) == \E i \in 1..Len(x) : x[i] = c

\* The index of the first ">" of x at or after i, 0 when there is none.
RECURSIVE IndexOfGt(_, _)
IndexOfGt(x, i) ==
    IF i > Len(x) THEN 0
    ELSE IF x[i] = ">" THEN i
    ELSE IndexOfGt(x, i + 1)

\* DOMPurify with no tag allowed: x is parsed as HTML, every element is
\* removed and its text kept, and the text is serialised.  "<" followed by
\* a letter opens a tag, which runs to the next ">" (to the end of input
\* when there is none); any other "<" and every ">" is text, serialised as
\* a character reference.
RECURSIVE StripTags(_)
StripTags(x) ==
    IF x = <<>> THEN <<>>
    ELSE IF x[1] = "<" /\ Len(x) >= 2 /\ x[2] \in Letters
    THEN LET close == IndexOfGt(x, 3) IN
         IF close = 0 THEN <<>>
         ELSE StripTags(SubSeq(x, close + 1, Len(x)))
    ELSE IF x[1] = "<" THEN <<"&lt;">> \o StripTags(Tail(x))
    ELSE IF x[1] = ">" THEN <<"&gt;">> \o StripTags(Tail(x))
    ELSE <<x[1]>> \o StripTags(Tail(x))

\* DOMPurify.sanitize(x, { ALLOWED_TAGS: [], ALLOWED_ATTR: [] }),
\* security.ts:35-38.  A string that holds no "<" is returned as it is.
DOMPurifySanitize(x) == IF ~Includes(x, "<") THEN x ELSE StripTags(x)

\* sanitizeInput, security.ts:21-41
sanitizeInput(input) ==
    IF input = <<>> THEN <<>>
    ELSE LET trimmed == Trim(input)
             noNull == RemoveAll(trimmed, {"NUL"})
             noControl == RemoveAll(noNull, ControlChars)
         IN DOMPurifySanitize(noControl)

InitSan ==
    /\ adminDb = FALSE /\ adminAuth = FALSE
    /\ users = [u \in Uids |-> NoDoc]
    /\ bans = <<>>
    /\ licenses = NoLicenses
    /\ req = Idle
    /\ rl = RLUnused
    /\ \E x \in StringsUpTo(MaxLen) :
          san = [pc |-> "input", input |-> x, once |-> <<>>, twice |-> <<>>]

\* sanitizeInput is applied to the input.
SanitizeOnce ==
    /\ san.pc = "input"
    /\ san' = [san EXCEPT !.pc = "once", !.once = sanitizeInput(san.input)]
    /\ UNCHANGED <<adminDb, adminAuth, users, bans, licenses, req, rl>>

\* sanitizeInput is applied to its own result.
SanitizeTwice ==
    /\ san.pc = "once"
    /\ san' = [san EXCEPT !.pc = "twice", !.twice = sanitizeInput(san.once)]
    /\ UNCHANGED <<adminDb, adminAuth, users, bans, licenses, req, rl>>

NextSan == SanitizeOnce \/ SanitizeTwice

SpecSan == InitSan /\ [][NextSan]_vars

\* C10: sanitizeInput(sanitizeInput(x)) = sanitizeInput(x) for every string x.
C10_SanitizeIdempotent ==
    san.pc = "twice" => san.twice = san.once

====
